---- MODULE Spec2Model ----
(***************************************************************************)
(* Authorization decision layer of the agent catalog service.              *)
(*                                                                         *)
(* Python strings are modelled as sequences of one-character strings, and  *)
(* Python dicts as functions from their keys.  The claims of a token are   *)
(* typed as the data model types them: o is an object, o.rol, o.per and    *)
(* fea are strings (each may be absent).                                   *)
(***************************************************************************)
EXTENDS Integers, Sequences, FiniteSets, TLC

\* ------------------------------------------------------------------------
\* Bounds of the model
\* ------------------------------------------------------------------------

\* Longest fea / o.per claim string that is enumerated exhaustively.
MaxLen == 2

\* Requests that reach get_cached_user in one run of the cache.
MaxRequests == 4

\* Requests that reach get_cached_user in one run of the resolver.
MaxResolves == 2

\* The clock advances in ticks of 150 seconds, up to MaxTicks of them.
MaxTicks == 2

\* Rows of the user_agent_purchases table in one run.
MaxSubscriptions == 3

\* maxsize of the lru_cache on get_cached_user.  The code has 100; the model
\* is run with a capacity small enough for its requests to fill.
maxsize == 2

\* ------------------------------------------------------------------------
\* Python values
\* ------------------------------------------------------------------------

\* None, where a string is expected: its element is not a character, so it
\* differs from every string.
None == <<"None">>

\* {} (the empty dict)
EmptyDict == <<>>

Range(s) == {s[i] : i \in 1..Len(s)}

\* dict.get(key, default)
get(d, key, default) == IF key \in DOMAIN d THEN d[key] ELSE default

\* truth value of a dict: {} is falsy
truthy(d) == DOMAIN d # {}

\* str.startswith(prefix)
startswith(s, prefix) ==
    Len(s) >= Len(prefix) /\ SubSeq(s, 1, Len(prefix)) = prefix

\* str.split(sep) for a one-character separator: the list of the segments
\* between the separators, empty segments included.
RECURSIVE split(_, _)
split(s, sep) ==
    IF \A i \in 1..Len(s) : s[i] # sep
    THEN <<s>>
    ELSE LET i == CHOOSE k \in 1..Len(s) :
                      s[k] = sep /\ \A j \in 1..(k - 1) : s[j] # sep
         IN  <<SubSeq(s, 1, i - 1)>> \o split(SubSeq(s, i + 1, Len(s)), sep)

isspace(c) == c = " "

\* str.strip(): leading and trailing whitespace removed, inner kept.
RECURSIVE strip(_)
strip(s) ==
    IF s = <<>> THEN s
    ELSE IF isspace(s[1]) THEN strip(Tail(s))
    ELSE IF isspace(s[Len(s)]) THEN strip(SubSeq(s, 1, Len(s) - 1))
    ELSE s

\* ------------------------------------------------------------------------
\* Strings of the model
\* ------------------------------------------------------------------------

Admin      == <<"a", "d", "m", "i", "n">>
AdminUpper == <<"A", "d", "m", "i", "n">>
User       == <<"u", "s", "e", "r">>

Bearer == <<"B", "e", "a", "r", "e", "r">>
Basic  == <<"B", "a", "s", "i", "c">>

\* The token string a client sends; what it decodes to is the state of the
\* JWT library's verdict on it (variable jwt).
MockToken == <<"t">>

\* All strings over chars of length at most n.
StringsUpTo(chars, n) == UNION {[1..k -> chars] : k \in 0..n}

\* fea: features are named by letters; "c" is the feature that requirements
\* ask for, "x" another one.
FeaChars == {"c", ",", " "}
FeaStrings ==
    StringsUpTo(FeaChars, MaxLen)
        \cup { <<"c", ",", "x">>,              \* two features
               <<" ", "x", " ", ",", " ", "c", " ">>,
               <<"c", " ", "c">>,              \* one feature, inner space
               <<"o", ":", "c">> }             \* feature written with prefix

\* o.per: "m" is manage, "d" is delete, "v" is view.
PerChars == {"m", ",", " "}
PerStrings ==
    StringsUpTo(PerChars, MaxLen)
        \cup { <<"m", ",", "d">>, <<"v">>, <<" ", "v", ",", "m", " ">> }

RequiredRoles == {Admin, User}
TokenRoles    == {Admin, AdminUpper, User}

\* required_permission literals a caller may pass.
WellFormedPermissions ==
    { <<"o", ":", "c", ":", "m">>,
      <<"o", ":", "c", ":", "d">>,
      <<"o", ":", "x", ":", "m">>,
      <<"o", "r", "g", ":", "c", "c", ":", "m">>,
      <<"o", ":", ":", "m">>,                  \* empty feature segment
      <<"o", ":", "c", ":">> }                 \* empty action segment
MalformedPermissions ==
    { <<>>,
      <<"c">>,
      <<"c", ":", "m">>,
      <<"o", ":", "c", ":", "m", ":", "d">>,
      <<":", ":", ":">> }
RequiredPermissions == WellFormedPermissions \cup MalformedPermissions

\* ------------------------------------------------------------------------
\* Tokens
\* ------------------------------------------------------------------------

\* The organization objects built from rol and per values; one more carries
\* neither (only an id), and the product holds the empty object.
Orgs(pers) ==
    { r @@ p : r \in {EmptyDict} \cup {("rol" :> x) : x \in TokenRoles},
               p \in {EmptyDict} \cup {("per" :> x) : x \in pers} }
        \cup { ("id" :> <<"o", "1">>) }

\* The claim sets: sub is always there, o and fea may be absent.
Payloads(feas, pers) ==
    { o @@ f @@ ("sub" :> <<"u", "1">>) :
          o \in {EmptyDict} \cup {("o" :> x) : x \in Orgs(pers)},
          f \in {EmptyDict} \cup {("fea" :> x) : x \in feas} }

AllPayloads    == Payloads(FeaStrings, PerStrings)
SamplePayloads ==
    Payloads({<<>>, <<"c">>, <<"c", ",", "x">>}, {<<>>, <<"m">>, <<"v">>})

\* What jwt.decode does with MockToken: it returns the payload, or raises.
DecodeKinds == {"payload", "ExpiredSignatureError", "InvalidTokenError"}

\* ------------------------------------------------------------------------
\* Requests
\* ------------------------------------------------------------------------

Headers ==
    { Bearer \o <<" ">> \o MockToken,
      Bearer \o <<" ">>,                        \* empty token
      Bearer \o <<" ", " ">> \o MockToken,      \* two spaces
      Bearer,
      <<"b", "e", "a", "r", "e", "r", " ">> \o MockToken,
      Basic \o <<" ">> \o MockToken,
      MockToken,
      <<>> }

Request(h) == [headers |-> ("Authorization" :> h)]
GoodRequest == Request(Bearer \o <<" ">> \o MockToken)
Requests == {Request(h) : h \in Headers} \cup {[headers |-> EmptyDict]}

TestUser == ("id" :> <<"u", "1">>)
\* current_user: an identity, or a falsy value ({} stands for None as well).
CurrentUsers == {TestUser, EmptyDict}

VARIABLES
    request,              \* the HTTP request (its headers)
    current_user,         \* the resolved caller identity
    arg_role,        \* requirement passed by the calling code
    arg_permission,
    jwt,                  \* the JWT library's verdict on MockToken
    pc,                   \* "call": evaluator not yet run, "done": it has
    result,               \* outcome of check_role_and_permission
    decode_calls,         \* calls of jwt.decode made for the request
    agents,               \* the agent catalog (rows of the agents table)
    next_id,              \* the next fresh agent id
    agent_data,           \* body of a create request
    agent_request,        \* the last request to the agent endpoints
    response,             \* response to a create request
    cache,                \* the lru_cache of get_cached_user, least recently
                          \* used entry first
    ticks,                \* the clock, in ticks of 150 seconds
    requests,             \* requests that have reached get_cached_user
    resolved,             \* outcome of the last get_current_user
    provider_calls,       \* outcomes of the provider calls of that request
    lookups,              \* provider calls made so far, per cache key
    provider_failed,      \* some provider call has failed
    evicted,              \* some entry was evicted for lack of room
    user_agent_purchases, \* the rows of the subscription table, by id
    sub_request,          \* the last subscription request
    sub_response,         \* the response to it
    workers               \* the requests in flight, per worker

permissionVars == <<request, current_user, arg_role, arg_permission, jwt, pc,
                    result, decode_calls>>

agentVars == <<agents, next_id, agent_data, agent_request, response>>

authVars == <<cache, ticks, requests, resolved, provider_calls,
              lookups, provider_failed, evicted>>

subscriptionVars == <<user_agent_purchases, sub_request, sub_response, workers>>

vars == <<permissionVars, agentVars, authVars, subscriptionVars>>

\* ------------------------------------------------------------------------
\* Outcomes
\* ------------------------------------------------------------------------

\* A detail string: its fixed text and the values formatted into it.
Detail(text) ==
    [text |-> text, required |-> <<>>, found |-> <<>>,
     features |-> {}, permissions |-> {}]

HTTPException(status_code, detail) ==
    [returned |-> FALSE, status_code |-> status_code, detail |-> detail]

ReturnTrue == [returned |-> TRUE, status_code |-> 0, detail |-> Detail("True")]

NoResult == [returned |-> FALSE, status_code |-> 0, detail |-> Detail("")]

\* ------------------------------------------------------------------------
\* jwt.decode
\* ------------------------------------------------------------------------

\* jwt.decode(token, CLERK_JWT_KEY, algorithms=["RS256"]): env is the
\* library's verdict on MockToken; any other string (the empty one that a
\* header "Bearer " or "Bearer  t" yields) is no JWT at all.
jwt_decode(token, env) ==
    IF token = MockToken
    THEN env
    ELSE [kind |-> "InvalidTokenError", payload |-> EmptyDict]

\* The except clauses for the decode failures.  ExpiredSignatureError is a
\* subclass of InvalidTokenError, and its clause comes first.
decode_error_invalid_first(kind) ==
    IF kind \in {"InvalidTokenError", "ExpiredSignatureError"}
    THEN HTTPException(401, Detail("Invalid token"))
    ELSE HTTPException(401, Detail("Token has expired"))

decode_error(kind) ==
    IF kind = "ExpiredSignatureError"
    THEN HTTPException(401, Detail("Token has expired"))
    ELSE HTTPException(401, Detail("Invalid token"))

\* ------------------------------------------------------------------------
\* check_role_and_permission
\* ------------------------------------------------------------------------

\* if not auth_header or not auth_header.startswith('Bearer ')
header_invalid_missing_only(auth_header) ==
    auth_header = None \/ auth_header = <<>>

header_invalid(auth_header) ==
    \/ auth_header = None
    \/ auth_header = <<>>
    \/ ~startswith(auth_header, Bearer \o <<" ">>)

\* if not org_data
no_org_data_is_none(org_data) == FALSE

no_org_data(org_data) == ~truthy(org_data)

Lowercase == ("A" :> "a") @@ ("K" :> "k") @@ ("T" :> "t")

lower(s) ==
    [i \in 1..Len(s) |-> IF s[i] \in DOMAIN Lowercase THEN Lowercase[s[i]]
                                                       ELSE s[i]]

\* if user_role != required_role
role_mismatch_ignoring_case(user_role, required_role) ==
    lower(user_role) # lower(required_role)

role_mismatch(user_role, required_role) == user_role # required_role

\* _, required_feature, required_action = required_permission.split(':')
\* raises ValueError unless the split has exactly three segments
unpack_fails_too_few(parts) == Len(parts) < 3

unpack_fails(parts) == Len(parts) # 3

\* {f.strip() for f in s.split(',') if f.strip()}
parse_set_keeping_empties(s) == {strip(f) : f \in Range(split(s, ","))}

parse_set(s) == {strip(f) : f \in {g \in Range(split(s, ",")) : strip(g) # <<>>}}

\* if required_feature in features and required_action in permissions
granted_either(required_feature, required_action, features, permissions) ==
    required_feature \in features \/ required_action \in permissions

granted_feature_twice(required_feature, required_action, features, permissions) ==
    required_feature \in features /\ required_action \in features

granted_feature_only(required_feature, required_action, features, permissions) ==
    required_feature \in features

granted(required_feature, required_action, features, permissions) ==
    required_feature \in features /\ required_action \in permissions

InsufficientRole(required_role, user_role) ==
    HTTPException(403, [Detail("Insufficient role")
                            EXCEPT !.required = required_role,
                                   !.found = user_role])

InsufficientPermissions(required_permission, features, permissions) ==
    HTTPException(403, [Detail("Insufficient permissions")
                            EXCEPT !.required = required_permission,
                                   !.features = features,
                                   !.permissions = permissions])

InvalidPermissionFormat(required_permission) ==
    HTTPException(500, [Detail("Invalid permission format")
                            EXCEPT !.required = required_permission])

\* The checks on the requirement and on the fea and o.per claims.
check_permission(payload, org_data, required_permission) ==
    LET parts == split(required_permission, ":") IN
    IF unpack_fails(parts)
    THEN InvalidPermissionFormat(required_permission)
    ELSE LET required_feature == parts[2]
             required_action  == parts[3]
             features    == parse_set(get(payload, "fea", <<>>))
             permissions == parse_set(get(org_data, "per", <<>>))
         IN  IF features = {}
             THEN HTTPException(403, Detail("No feature data found in token"))
             ELSE IF granted(required_feature, required_action,
                             features, permissions)
             THEN ReturnTrue
             ELSE InsufficientPermissions(required_permission,
                                          features, permissions)

\* The checks on the decoded claims, with the requirement parsed before the
\* role is compared.
check_claims_requirement_first(payload, required_role, required_permission) ==
    LET org_data  == get(payload, "o", EmptyDict)
        user_role == get(org_data, "rol", None)
    IN  IF no_org_data(org_data)
        THEN HTTPException(403, Detail("No organization data found in token"))
        ELSE IF unpack_fails(split(required_permission, ":"))
        THEN InvalidPermissionFormat(required_permission)
        ELSE IF role_mismatch(user_role, required_role)
        THEN InsufficientRole(required_role, user_role)
        ELSE check_permission(payload, org_data, required_permission)

\* The checks on the decoded claims, with the role compared only once the
\* feature and action were found.
check_claims_role_last(payload, required_role, required_permission) ==
    LET org_data  == get(payload, "o", EmptyDict)
        user_role == get(org_data, "rol", None)
        allowed   == check_permission(payload, org_data, required_permission)
    IN  IF no_org_data(org_data)
        THEN HTTPException(403, Detail("No organization data found in token"))
        ELSE IF ~allowed.returned
        THEN allowed
        ELSE IF role_mismatch(user_role, required_role)
        THEN InsufficientRole(required_role, user_role)
        ELSE ReturnTrue

\* The checks on the decoded claims.
check_claims(payload, required_role, required_permission) ==
    LET org_data  == get(payload, "o", EmptyDict)
        user_role == get(org_data, "rol", None)
    IN  IF no_org_data(org_data)
        THEN HTTPException(403, Detail("No organization data found in token"))
        ELSE IF role_mismatch(user_role, required_role)
        THEN InsufficientRole(required_role, user_role)
        ELSE check_permission(payload, org_data, required_permission)

\* The evaluator; env is the JWT library's verdict on MockToken.
check_role_and_permission(req, user, role, permission, env) ==
    IF ~truthy(user)
    THEN HTTPException(401, Detail("Authentication required"))
    ELSE LET auth_header == get(req.headers, "Authorization", None) IN
         IF header_invalid(auth_header)
         THEN HTTPException(401, Detail("Invalid authorization header"))
         ELSE LET parts   == split(auth_header, " ")
                  token   == parts[2]
                  decoded == jwt_decode(token, env)
              IN  IF Len(parts) < 2
                  THEN HTTPException(500, Detail("Error checking permissions"))
                  ELSE IF decoded.kind # "payload"
                  THEN decode_error(decoded.kind)
                  ELSE check_claims(decoded.payload, role, permission)

\* The number of times the evaluator calls jwt.decode: once, if the caller
\* and the header pass their checks.
jwt_decode_calls(req, user) ==
    IF /\ truthy(user)
       /\ ~header_invalid(get(req.headers, "Authorization", None))
       /\ Len(split(get(req.headers, "Authorization", None), " ")) >= 2
    THEN 1
    ELSE 0

\* ------------------------------------------------------------------------
\* The agent catalog
\* ------------------------------------------------------------------------

AgentNames == {<<"a", "1">>, <<"a", "2">>}

\* agent_data.image_data: absent, base64 of a small image, base64 of an image
\* over MAX_IMAGE_SIZE, or no base64 at all.
ImageKinds == {"None", "small", "too_large", "not_base64"}

AgentCreate ==
    [name : AgentNames, title : {<<"T">>}, description : {<<"d">>},
     display_order : {0, 1}, image_data : ImageKinds]

NoAgentData ==
    [name |-> <<>>, title |-> <<"T">>, description |-> <<"d">>,
     display_order |-> 0, image_data |-> "None"]

\* AgentService.get_agent_by_name: the rows with that name (none if empty)
get_agent_by_name(catalog, name) == {a \in catalog : a.name = name}

\* AgentService.create_agent: the row added
AgentDB(id, data) ==
    [id |-> id, name |-> data.name, title |-> data.title,
     description |-> data.description, display_order |-> data.display_order]

Created == [returned |-> TRUE, status_code |-> 201, detail |-> Detail("")]

\* "o:all_content:manage", with c for all_content and m for manage
CreateAgentPermission == <<"o", ":", "c", ":", "m">>

\* await check_role_and_permission(...): the handler goes on only if the
\* evaluator returns; what it raises ends the request.
proceeds_always(allowed) == TRUE

proceeds(allowed) == allowed.returned

\* POST /agents: the response and the catalog after it.
create_agent(req, data, catalog, id, user, env) ==
    LET allowed == check_role_and_permission(req, user, Admin,
                                             CreateAgentPermission, env)
    IN  IF ~proceeds(allowed)
        THEN [response |-> allowed, agents |-> catalog]
        ELSE IF get_agent_by_name(catalog, data.name) # {}
        THEN [response |-> HTTPException(400,
                               Detail("An agent with this name already exists")),
              agents |-> catalog]
        ELSE IF data.image_data \in {"too_large", "not_base64"}
        THEN [response |-> HTTPException(400, Detail("Error decoding image")),
              agents |-> catalog]
        ELSE [response |-> Created,
              agents |-> catalog \cup {AgentDB(id, data)}]

\* ------------------------------------------------------------------------
\* app/services/agent_service.py and the other agent endpoints
\* ------------------------------------------------------------------------

\* limit of get_all_agents when the caller passes none
default_limit == 10

Min(a, b) == IF a <= b THEN a ELSE b

\* The rows of a query in the order of ORDER BY display_order: rows with
\* equal display_order come in any order.
RECURSIVE order_by_display_order(_)
order_by_display_order(rows) ==
    IF rows = {}
    THEN {<<>>}
    ELSE UNION {{<<a>> \o rest : rest \in order_by_display_order(rows \ {a})} :
                   a \in {x \in rows : \A y \in rows :
                                          x.display_order <= y.display_order}}

\* list[skip:skip + limit]
slice(list, skip, limit) == SubSeq(list, skip + 1, Min(Len(list), skip + limit))

\* AgentService.get_all_agents(skip=skip, limit=limit) without filters: the
\* lists the query can return.
get_all_agents(catalog, skip, limit) ==
    {slice(list, skip, limit) : list \in order_by_display_order(catalog)}

\* AgentService.get_agent_by_id: the rows with that id
get_agent_by_id(catalog, agent_id) == {a \in catalog : a.id = agent_id}

\* AgentUpdate: the bodies of an update, as the dict of the fields they set
\* (model_dump(exclude_unset=True)); every field is optional.
AgentUpdate ==
    {("name" :> n) : n \in AgentNames}
        \cup {("display_order" :> k) : k \in {0}}
        \cup {("name" :> n) @@ ("display_order" :> k) :
                  n \in AgentNames, k \in {0}}

\* agent_update.name: None when the body does not set it
name_of(agent_update) ==
    IF "name" \in DOMAIN agent_update THEN agent_update.name ELSE None

\* AgentService.update_agent: setattr for every field the body sets
apply_update(row, update_data) ==
    [key \in DOMAIN row |-> IF key \in DOMAIN update_data
                            THEN update_data[key] ELSE row[key]]

AgentResponse(status_code, row) ==
    [returned |-> TRUE, status_code |-> status_code, detail |-> Detail(""),
     row |-> row]

\* PUT /agents/{agent_id}: the responses and catalogs it can end with.  The
\* commit of a name that another row holds fails on the unique constraint
\* of agents.name, and nothing catches the error.
update_agent(catalog, agent_id, agent_update) ==
    LET existing == get_agent_by_id(catalog, agent_id)
        row == CHOOSE a \in existing : TRUE
        updated == apply_update(row, agent_update)
    IN  IF existing = {}
        THEN {[response |-> HTTPException(404, Detail("Agent not found")),
               agents |-> catalog]}
        ELSE {IF \E i \in 1..Len(all_agents) :
                    /\ all_agents[i].name = name_of(agent_update)
                    /\ all_agents[i].id # agent_id
              THEN [response |-> HTTPException(400,
                        Detail("An agent with this name already exists")),
                    agents |-> catalog]
              ELSE IF \E a \in catalog \ {row} : a.name = updated.name
              THEN [response |-> HTTPException(500,
                        Detail("Internal Server Error")),
                    agents |-> catalog]
              ELSE [response |-> AgentResponse(200, updated),
                    agents |-> (catalog \ {row}) \cup {updated}] :
                all_agents \in get_all_agents(catalog, 0, default_limit)}

\* DELETE /agents/{agent_id}
delete_agent(catalog, agent_id) ==
    IF get_agent_by_id(catalog, agent_id) = {}
    THEN [response |-> HTTPException(404, Detail("Agent not found")),
          agents |-> catalog]
    ELSE [response |-> [returned |-> TRUE, status_code |-> 204,
                        detail |-> Detail("")],
          agents |-> catalog \ get_agent_by_id(catalog, agent_id)]

\* query in text
contains(text, query) ==
    \E i \in 0..(Len(text) - Len(query)) :
        SubSeq(text, i + 1, i + Len(query)) = query

matches(agent, query) ==
    \/ contains(lower(agent.name), query)
    \/ contains(lower(agent.title), query)
    \/ contains(lower(agent.description), query)

RECURSIVE filter(_, _)
filter(list, query) ==
    IF list = <<>>
    THEN <<>>
    ELSE (IF matches(Head(list), query) THEN <<Head(list)>> ELSE <<>>)
             \o filter(Tail(list), query)

SearchResponse(list) ==
    [returned |-> TRUE, status_code |-> 200, detail |-> Detail(""),
     list |-> list]

\* GET /agents/search/: the responses it can give.
search_agents(catalog, query, skip, limit) ==
    {SearchResponse(slice(filter(list, lower(query)), skip, limit)) :
         list \in get_all_agents(catalog, 0, default_limit)}

\* ------------------------------------------------------------------------
\* app/core/auth.py: get_cached_user
\* ------------------------------------------------------------------------

UserIds == {<<"1">>, <<"2">>}

\* Outcomes of clerk.users.get: the user, or one of the SDK's errors.
ProviderOutcomes == {"ok", "ClerkErrors", "SDKError"}

\* time.time(), in seconds
time_time == ticks * 150

\* int(time.time() / 300)
current_timestamp == time_time \div 300

Buckets == {(t * 150) \div 300 : t \in 0..MaxTicks}

\* The dict built from the provider's user: its id, and the time bucket in
\* which it was fetched.
user_info_of(user_id) == [id |-> user_id, fetched |-> current_timestamp]

NoUserInfo == [id |-> <<>>, fetched |-> 0]

\* The key lru_cache makes of the arguments.
make_key_user_only(user_id, timestamp) == <<user_id, 0>>

make_key(user_id, timestamp) == <<user_id, timestamp>>

Keys == {make_key(u, b) : u \in UserIds, b \in Buckets}

\* The positions of the entry stored under key (none, or one).
cached_never(c, key) == {}

cached(c, key) == {i \in 1..Len(c) : c[i].key = key}

without(c, i) == SubSeq(c, 1, i - 1) \o SubSeq(c, i + 1, Len(c))

\* Each entry records the request that stored it and the one that used it
\* last.
used(c, i) == [c EXCEPT ![i].used = requests]

\* A hit makes the entry the most recently used one.
touch_not(c, i) == c

touch(c, i) == without(c, i) \o <<c[i]>>

\* A full cache drops its least recently used entry for a new one.
make_room(c) == IF Len(c) >= maxsize THEN Tail(c) ELSE c

\* get_cached_user.cache_clear()
cache_clear == <<>>

\* get_cached_user(user_id, timestamp) on cache c, the provider answering
\* with outcome: the cache after it, the exception raised ("no" if none),
\* the value returned and the provider calls made.  An exception is not
\* stored.
get_cached_user(c, user_id, timestamp, outcome) ==
    LET key == make_key(user_id, timestamp)
        hit == cached(c, key)
    IN  IF hit # {}
        THEN LET i == CHOOSE i \in hit : TRUE
             IN  [cache |-> touch(used(c, i), i), raised |-> "no",
                  value |-> c[i].value, calls |-> <<>>]
        ELSE IF outcome # "ok"
        THEN [cache |-> c, raised |-> outcome,
              value |-> NoUserInfo, calls |-> <<outcome>>]
        ELSE [cache |-> make_room(c) \o
                          <<[key |-> key, value |-> user_info_of(user_id),
                             stored |-> requests, used |-> requests]>>,
              raised |-> "no",
              value |-> user_info_of(user_id), calls |-> <<"ok">>]

\* ------------------------------------------------------------------------
\* app/core/auth.py: get_current_user
\* ------------------------------------------------------------------------

SessionId == <<"s">>

WithClaim(key, values) == {EmptyDict} \cup {key :> v : v \in values}

\* The claims of a verified token: sub and sid, each present, empty or absent.
AuthPayloads ==
    {a @@ b : a \in WithClaim("sub", UserIds \cup {<<>>}),
              b \in WithClaim("sid", {SessionId, <<>>})}

AuthDecodeFailures ==
    {"ExpiredSignatureError", "InvalidSignatureError", "DecodeError"}

AuthTokens ==
    [kind : {"payload"}, payload : AuthPayloads]
        \cup [kind : AuthDecodeFailures, payload : {EmptyDict}]

\* The classes an exception is an instance of.
mro(kind) ==
    CASE kind = "ExpiredSignatureError" ->
             {"ExpiredSignatureError", "InvalidTokenError", "Exception"}
      [] kind = "InvalidSignatureError" ->
             {"InvalidSignatureError", "DecodeError", "InvalidTokenError",
              "Exception"}
      [] kind = "DecodeError" ->
             {"DecodeError", "InvalidTokenError", "Exception"}
      [] OTHER -> {kind, "Exception"}

\* not s, for a string or None
falsy(s) == s = None \/ s = <<>>

\* f'Authentication error: {str(e)}'
AuthenticationError(cause) ==
    [Detail("Authentication error") EXCEPT !.found = cause]

\* The except clauses of the outer try, in their order.
except_clauses_invalid_first(kind, cause) ==
    IF "InvalidTokenError" \in mro(kind)
    THEN HTTPException(401, Detail("Invalid token format"))
    ELSE IF "ExpiredSignatureError" \in mro(kind)
    THEN HTTPException(401, Detail("Token has expired"))
    ELSE IF "InvalidSignatureError" \in mro(kind)
    THEN HTTPException(401, Detail("Invalid token signature"))
    ELSE HTTPException(500, AuthenticationError(cause))

except_clauses(kind, cause) ==
    IF "ExpiredSignatureError" \in mro(kind)
    THEN HTTPException(401, Detail("Token has expired"))
    ELSE IF "InvalidSignatureError" \in mro(kind)
    THEN HTTPException(401, Detail("Invalid token signature"))
    ELSE IF "InvalidTokenError" \in mro(kind)
    THEN HTTPException(401, Detail("Invalid token format"))
    ELSE HTTPException(500, AuthenticationError(cause))

\* except (ClerkErrors, SDKError)
handled_none(kind) == FALSE

handled(kind) == {"ClerkErrors", "SDKError"} \cap mro(kind) # {}

Returned(user_info) ==
    [returned |-> TRUE, status_code |-> 200, detail |-> Detail(""),
     user_info |-> user_info]

\* get_current_user on cache c with the library's verdict env on the token.
\* outcomes[n] is the provider's answer to the n-th call the request makes.
\* The result is the outcome, the cache after the request and the provider
\* calls made.
get_current_user(c, env, outcomes) ==
    LET decoded == jwt_decode(MockToken, env)
        user_id == get(decoded.payload, "sub", None)
        session_id == get(decoded.payload, "sid", None)
        first == get_cached_user(c, user_id, current_timestamp, outcomes[1])
        reseed == get_cached_user(cache_clear, user_id, current_timestamp,
                                  outcomes[3])
    IN  IF decoded.kind # "payload"
        THEN [resolved |-> except_clauses(decoded.kind, <<decoded.kind>>),
              cache |-> c, calls |-> <<>>]
        ELSE IF falsy(user_id)
        THEN [resolved |-> except_clauses("HTTPException",
                               <<"401: Invalid token: No user ID found">>),
              cache |-> c, calls |-> <<>>]
        ELSE IF falsy(session_id)
        THEN [resolved |-> except_clauses("HTTPException",
                               <<"401: Invalid token: No session ID found">>),
              cache |-> c, calls |-> <<>>]
        ELSE IF first.raised = "no"
        THEN [resolved |-> Returned(first.value),
              cache |-> first.cache, calls |-> first.calls]
        ELSE IF ~handled(first.raised)
        THEN [resolved |-> except_clauses(first.raised, <<first.raised>>),
              cache |-> c, calls |-> first.calls]
        ELSE IF outcomes[2] # "ok"
        THEN [resolved |-> except_clauses(outcomes[2], <<outcomes[2]>>),
              cache |-> c, calls |-> first.calls \o <<outcomes[2]>>]
        ELSE IF reseed.raised # "no"
        THEN [resolved |-> except_clauses(reseed.raised, <<reseed.raised>>),
              cache |-> reseed.cache,
              calls |-> first.calls \o <<"ok">> \o reseed.calls]
        ELSE [resolved |-> Returned(user_info_of(user_id)),
              cache |-> reseed.cache,
              calls |-> first.calls \o <<"ok">> \o reseed.calls]

\* ------------------------------------------------------------------------
\* app/services/subscription_service.py, app/api/v1/endpoints/subscriptions.py
\* ------------------------------------------------------------------------

\* The agent of the catalog that can be subscribed to, and an id that no
\* agent has.
SubscribedAgents == {AgentDB(1, [NoAgentData EXCEPT !.name = <<"a", "1">>])}

AgentIds == {1, 2}

\* AgentSubscriptionCreate: the body of a subscribe request.  user_id is
\* optional, ownership_status any string ("active" if left out).
AgentSubscriptionCreate ==
    [user_id : UserIds \cup {None}, agent_id : AgentIds,
     ownership_status : {"active", "unsubscribed"}]

Identity(user_id) == ("id" :> user_id)

\* db.query(AgentDB).filter(AgentDB.id == agent_id): the rows found
agent_by_id(catalog, agent_id) == {a \in catalog : a.id = agent_id}

\* SubscriptionService.get_subscription_by_id: the rows the query matches
get_subscription_by_id(table, subscription_id) ==
    {i \in 1..Len(table) : table[i].id = subscription_id}

\* SubscriptionService.get_active_subscription: the rows the query matches;
\* first() returns one of them, in no stated order.
get_active_subscription_any_status(table, user_id, agent_id) ==
    {i \in 1..Len(table) : /\ table[i].user_id = user_id
                           /\ table[i].agent_id = agent_id}

get_active_subscription_none(table, user_id, agent_id) == {}

get_active_subscription(table, user_id, agent_id) ==
    {i \in 1..Len(table) : /\ table[i].user_id = user_id
                           /\ table[i].agent_id = agent_id
                           /\ table[i].ownership_status = "active"}

\* SubscriptionService.create_subscription: the table with the row added.
\* changed_by records the callers whose requests changed the row's status.
create_subscription(table, subscription) ==
    Append(table, [id |-> Len(table) + 1,
                   user_id |-> subscription.user_id,
                   agent_id |-> subscription.agent_id,
                   ownership_status |-> subscription.ownership_status,
                   changed_by |-> {}])

\* subscription.user_id = current_user["id"]
set_user_id_unless_given(subscription, user) ==
    IF subscription.user_id = None
    THEN [subscription EXCEPT !.user_id = user["id"]]
    ELSE subscription

set_user_id(subscription, user) == [subscription EXCEPT !.user_id = user["id"]]

SubscriptionResponse(status_code, row) ==
    [returned |-> TRUE, status_code |-> status_code, detail |-> Detail(""),
     row |-> row]

\* POST /subscribe: the response and the table after it.
subscribe_agent(table, catalog, subscription, user) ==
    LET own == set_user_id(subscription, user)
        created == create_subscription(table, own)
    IN  IF agent_by_id(catalog, own.agent_id) = {}
        THEN [response |-> HTTPException(404, Detail("Agent not found")),
              table |-> table]
        ELSE IF get_active_subscription(table, own.user_id, own.agent_id) # {}
        THEN [response |-> HTTPException(400, Detail(
                  "User already has an active subscription for this agent")),
              table |-> table]
        ELSE [response |-> SubscriptionResponse(201, created[Len(created)]),
              table |-> created]

\* SubscriptionService.unsubscribe / update_subscription on row i, for the
\* caller actor
update_subscription(table, i, actor) ==
    [table EXCEPT ![i].ownership_status = "unsubscribed",
                  ![i].changed_by = @ \cup {actor}]

\* if subscription.user_id != current_user["id"]
not_owner_never(row, user) == FALSE

not_owner(row, user) == row.user_id # user["id"]

\* POST /unsubscribe/{subscription_id}: the responses and tables it can
\* end with, one for each row that first() can return.
unsubscribe_agent(table, subscription_id, user) ==
    LET found == get_subscription_by_id(table, subscription_id)
        subscription == table[CHOOSE i \in found : TRUE]
        active == get_active_subscription(table, subscription.user_id,
                                          subscription.agent_id)
    IN  IF found = {}
        THEN {[response |-> HTTPException(404, Detail("Subscription not found")),
               table |-> table]}
        ELSE IF not_owner(subscription, user)
        THEN {[response |-> HTTPException(403, Detail(
                   "Not authorized to unsubscribe for another user")),
               table |-> table]}
        ELSE IF active = {}
        THEN {[response |-> HTTPException(404, Detail("Subscription not found")),
               table |-> table]}
        ELSE {[response |-> SubscriptionResponse(200,
                   update_subscription(table, i, user["id"])[i]),
               table |-> update_subscription(table, i, user["id"])] :
                 i \in active}

\* ------------------------------------------------------------------------
\* The evaluator called once on an arbitrary request
\* ------------------------------------------------------------------------

NoAgentRequest == [op |-> "none"]

NoAgents ==
    /\ agents = {}
    /\ next_id = 1
    /\ agent_data = NoAgentData
    /\ agent_request = NoAgentRequest
    /\ response = NoResult

\* Two workers serve the requests on one database.
Workers == {1, 2}

Idle == [pc |-> "idle"]

NoSubRequest == [op |-> "none"]

NoSubscriptions ==
    /\ user_agent_purchases = <<>>
    /\ sub_request = NoSubRequest
    /\ sub_response = NoResult
    /\ workers = [w \in Workers |-> Idle]

NoAuth ==
    /\ cache = <<>>
    /\ ticks = 0
    /\ requests = 0
    /\ resolved = NoResult
    /\ provider_calls = <<>>
    /\ lookups = [k \in Keys |-> 0]
    /\ provider_failed = FALSE
    /\ evicted = FALSE

\* Every requirement and every token of the bounded sets reaches the checks
\* on the claims; the requests that fail before them carry a sample of the
\* tokens.
InitPermission ==
    /\ pc = "call"
    /\ result = NoResult
    /\ decode_calls = 0
    /\ NoAgents
    /\ NoAuth
    /\ NoSubscriptions
    /\ arg_role \in RequiredRoles
    /\ arg_permission \in RequiredPermissions
    /\ \/ /\ current_user = TestUser
          /\ request = GoodRequest
          /\ jwt \in [kind : {"payload"}, payload : AllPayloads]
       \/ /\ current_user \in CurrentUsers
          /\ request \in Requests
          /\ jwt \in [kind : DecodeKinds, payload : SamplePayloads]

CheckRoleAndPermission ==
    /\ pc = "call"
    /\ result' = check_role_and_permission(request, current_user,
                                           arg_role, arg_permission, jwt)
    /\ decode_calls' = jwt_decode_calls(request, current_user)
    /\ pc' = "done"
    /\ UNCHANGED <<request, current_user, arg_role, arg_permission,
                   jwt>>
    /\ UNCHANGED agentVars
    /\ UNCHANGED authVars
    /\ UNCHANGED subscriptionVars

NextPermission == CheckRoleAndPermission

SpecPermission == InitPermission /\ [][NextPermission]_vars

\* ------------------------------------------------------------------------
\* POST /agents called once on an arbitrary request
\* ------------------------------------------------------------------------

\* The tokens of the create requests: the sample, and the tokens that
\* write the feature with the prefix of the requirement.
CreatePayloads ==
    Payloads({<<>>, <<"c">>, <<"c", ",", "x">>, <<"o", ":", "c">>},
             {<<>>, <<"m">>, <<"v">>})

\* The catalog is empty, or holds one agent created before.
InitCreateAgent ==
    /\ pc = "call"
    /\ result = NoResult
    /\ decode_calls = 0
    /\ arg_role = Admin
    /\ arg_permission = CreateAgentPermission
    /\ current_user \in CurrentUsers
    /\ request \in Requests
    /\ jwt \in [kind : DecodeKinds, payload : CreatePayloads]
    /\ agent_data \in AgentCreate
    /\ agent_request = NoAgentRequest
    /\ response = NoResult
    /\ NoAuth
    /\ NoSubscriptions
    /\ \/ agents = {} /\ next_id = 1
       \/ /\ agents \in {{AgentDB(1, [NoAgentData EXCEPT !.name = n])} :
                              n \in AgentNames}
          /\ next_id = 2

CreateAgent ==
    /\ pc = "call"
    /\ LET out == create_agent(request, agent_data, agents, next_id,
                               current_user, jwt)
       IN  /\ response' = out.response
           /\ agents' = out.agents
           /\ next_id' = IF out.agents = agents THEN next_id ELSE next_id + 1
    /\ agent_request' = [op |-> "create"]
    /\ result' = check_role_and_permission(request, current_user, arg_role,
                                           arg_permission, jwt)
    /\ decode_calls' = jwt_decode_calls(request, current_user)
    /\ pc' = "done"
    /\ UNCHANGED <<request, current_user, arg_role, arg_permission, jwt,
                   agent_data>>
    /\ UNCHANGED authVars
    /\ UNCHANGED subscriptionVars

NextCreateAgent == CreateAgent

SpecCreateAgent == InitCreateAgent /\ [][NextCreateAgent]_vars

\* ------------------------------------------------------------------------
\* One request to an agent endpoint, on a catalog of one, two or
\* default_limit + 1 agents
\* ------------------------------------------------------------------------

Letters == <<"1", "2", "3", "4", "5", "6", "7", "8", "9", "x", "y">>

\* Agent i of a catalog: named "a" and its letter, at display_order order[i].
catalog_of(order) ==
    {AgentDB(i, [NoAgentData EXCEPT !.name = <<"a", Letters[i]>>,
                                    !.display_order = order[i]]) :
         i \in DOMAIN order}

Ascending  == [i \in 1..(default_limit + 1) |-> i]
Descending == [i \in 1..(default_limit + 1) |-> default_limit + 2 - i]

Catalogs ==
    {catalog_of(order) : order \in {<<0>>, <<0, 0>>, <<0, 1>>, <<1, 0>>,
                                    Ascending, Descending}}

\* A token whose claims grant admin and manage on all_content, and one of a
\* plain user.
GrantingPayload ==
    ("o" :> (("rol" :> Admin) @@ ("per" :> <<"m">>)))
        @@ ("fea" :> <<"c">>) @@ ("sub" :> <<"u", "1">>)
PlainPayload ==
    ("o" :> (("rol" :> User) @@ ("per" :> <<"v">>)))
        @@ ("fea" :> <<"c">>) @@ ("sub" :> <<"u", "1">>)

Queries == {<<"a", "1">>, <<"A", "2">>, <<"y">>, <<"T">>, <<"t">>, <<"d">>,
            <<"z">>}

InitCatalog ==
    /\ pc = "call"
    /\ result = NoResult
    /\ decode_calls = 0
    /\ arg_role = Admin
    /\ arg_permission = CreateAgentPermission
    /\ current_user = TestUser
    /\ request = GoodRequest
    /\ jwt \in [kind : DecodeKinds, payload : {GrantingPayload, PlainPayload}]
    /\ agent_data \in AgentCreate
    /\ agent_request = NoAgentRequest
    /\ response = NoResult
    /\ NoAuth
    /\ NoSubscriptions
    /\ agents \in Catalogs
    /\ next_id = Cardinality(agents) + 1

CatalogFrame ==
    /\ pc' = "done"
    /\ UNCHANGED <<request, current_user, arg_role, arg_permission, jwt,
                   result, decode_calls, agent_data, next_id>>
    /\ UNCHANGED authVars
    /\ UNCHANGED subscriptionVars

UpdateAgent ==
    /\ pc = "call"
    /\ \E agent_id \in 1..(default_limit + 2), agent_update \in AgentUpdate :
          \E out \in update_agent(agents, agent_id, agent_update) :
              /\ agent_request' = [op |-> "update", agent_id |-> agent_id,
                                   agent_update |-> agent_update]
              /\ response' = out.response
              /\ agents' = out.agents
    /\ CatalogFrame

DeleteAgent ==
    /\ pc = "call"
    /\ \E agent_id \in 1..(default_limit + 2) :
          LET out == delete_agent(agents, agent_id)
          IN  /\ agent_request' = [op |-> "delete", agent_id |-> agent_id]
              /\ response' = out.response
              /\ agents' = out.agents
    /\ CatalogFrame

SearchAgents ==
    /\ pc = "call"
    /\ \E query \in Queries, skip \in {0, 1}, limit \in {1, default_limit} :
          \E out \in search_agents(agents, query, skip, limit) :
              /\ agent_request' = [op |-> "search", query |-> query,
                                   skip |-> skip, limit |-> limit]
              /\ response' = out
              /\ agents' = agents
    /\ CatalogFrame

NextCatalog == CreateAgent \/ UpdateAgent \/ DeleteAgent \/ SearchAgents

SpecCatalog == InitCatalog /\ [][NextCatalog]_vars

\* ------------------------------------------------------------------------
\* get_current_user serving a sequence of requests
\* ------------------------------------------------------------------------

NoToken == [kind |-> "payload", payload |-> EmptyDict]

InitAuth ==
    /\ pc = "done"
    /\ result = NoResult
    /\ decode_calls = 0
    /\ arg_role = Admin
    /\ arg_permission = CreateAgentPermission
    /\ current_user = EmptyDict
    /\ request = GoodRequest
    /\ jwt = NoToken
    /\ NoAgents
    /\ NoAuth
    /\ NoSubscriptions

\* The answers of the provider to the calls of one request: to the cached
\* lookup, to the direct call if that one failed, to the lookup that stores
\* the user again if that one succeeded.
Errors == ProviderOutcomes \ {"ok"}

Outcomes ==
    {<<"ok">>} \cup {<<a, b>> : a \in Errors, b \in Errors}
               \cup {<<a, "ok", b>> : a \in Errors, b \in ProviderOutcomes}

\* One request out of tokens while fewer than limit have reached the cache:
\* jwt is the library's verdict on its token.
GetCurrentUser(tokens, limit) ==
    /\ requests < limit
    /\ \E env \in tokens, outcomes \in Outcomes :
          LET out == get_current_user(cache, env, outcomes)
              user_id == get(env.payload, "sub", None)
              key == <<user_id, current_timestamp>>
              reached == /\ env.kind = "payload"
                         /\ ~falsy(user_id)
                         /\ ~falsy(get(env.payload, "sid", None))
          IN  /\ jwt' = env
              /\ resolved' = out.resolved
              /\ cache' = out.cache
              /\ provider_calls' = out.calls
              /\ requests' = IF reached THEN requests + 1 ELSE requests
              /\ lookups' = IF reached
                             THEN [lookups EXCEPT ![key] = @ + Len(out.calls)]
                             ELSE lookups
              /\ provider_failed' =
                     (provider_failed \/ \E n \in 1..Len(out.calls) :
                                             out.calls[n] # "ok")
              /\ evicted' =
                     (evicted \/ (/\ out.calls = <<"ok">>
                                  /\ \E i \in 1..Len(cache) :
                                        cached(out.cache, cache[i].key) = {}))
    /\ UNCHANGED <<request, current_user, arg_role, arg_permission, pc,
                   result, decode_calls, ticks>>
    /\ UNCHANGED agentVars
    /\ UNCHANGED subscriptionVars

\* Time passes.
Tick ==
    /\ ticks < MaxTicks
    /\ ticks' = ticks + 1
    /\ UNCHANGED <<permissionVars, agentVars, cache, requests,
                   resolved, provider_calls, lookups, provider_failed,
                   evicted>>
    /\ UNCHANGED subscriptionVars

\* The resolver on every token.
ResolveAnyToken == GetCurrentUser(AuthTokens, MaxResolves)

NextAuth == ResolveAnyToken \/ Tick

SpecAuth == InitAuth /\ [][NextAuth]_vars

\* The resolver on the tokens that reach the cache.
CacheTokens ==
    {t \in AuthTokens : /\ t.kind = "payload"
                        /\ ~falsy(get(t.payload, "sub", None))
                        /\ ~falsy(get(t.payload, "sid", None))}

ResolveCached == GetCurrentUser(CacheTokens, MaxRequests)

NextCache == ResolveCached \/ Tick

SpecCache == InitAuth /\ [][NextCache]_vars

\* ------------------------------------------------------------------------
\* Subscribe and unsubscribe requests served one after the other
\* ------------------------------------------------------------------------

InitSubscriptions ==
    /\ pc = "done"
    /\ result = NoResult
    /\ decode_calls = 0
    /\ arg_role = Admin
    /\ arg_permission = CreateAgentPermission
    /\ current_user = EmptyDict
    /\ request = GoodRequest
    /\ jwt = NoToken
    /\ agents = SubscribedAgents
    /\ next_id = 2
    /\ agent_data = NoAgentData
    /\ agent_request = NoAgentRequest
    /\ response = NoResult
    /\ NoAuth
    /\ NoSubscriptions

\* The parts of the state that no subscription request touches.
SubscriptionFrame ==
    /\ UNCHANGED <<request, arg_role, arg_permission, jwt, pc, result,
                   decode_calls>>
    /\ UNCHANGED agentVars
    /\ UNCHANGED authVars

\* POST /subscribe by the caller user_id with the body subscription
SubscribeAgent ==
    \E user_id \in UserIds, subscription \in AgentSubscriptionCreate :
        LET out == subscribe_agent(user_agent_purchases, agents, subscription,
                                   Identity(user_id))
        IN  /\ Len(out.table) <= MaxSubscriptions
            /\ current_user' = Identity(user_id)
            /\ sub_request' = [op |-> "subscribe", body |-> subscription]
            /\ sub_response' = out.response
            /\ user_agent_purchases' = out.table
            /\ UNCHANGED workers
            /\ SubscriptionFrame

\* POST /unsubscribe/{subscription_id} by the caller user_id
UnsubscribeAgent ==
    \E user_id \in UserIds, subscription_id \in 1..(MaxSubscriptions + 1) :
        \E out \in unsubscribe_agent(user_agent_purchases, subscription_id,
                                     Identity(user_id)) :
            /\ current_user' = Identity(user_id)
            /\ sub_request' = [op |-> "unsubscribe", id |-> subscription_id]
            /\ sub_response' = out.response
            /\ user_agent_purchases' = out.table
            /\ UNCHANGED workers
            /\ SubscriptionFrame

NextSubscriptions == SubscribeAgent \/ UnsubscribeAgent

SpecSubscriptions == InitSubscriptions /\ [][NextSubscriptions]_vars

\* ------------------------------------------------------------------------
\* Vocabulary of the properties, read off the state
\* ------------------------------------------------------------------------

Done == pc = "done"

CallerPresent == current_user # EmptyDict

AuthHeader == get(request.headers, "Authorization", None)

\* The header is there and starts with "Bearer ".
BearerHeader == AuthHeader # None /\ startswith(AuthHeader, Bearer \o <<" ">>)

\* The verdict of the JWT library on the token the header carries.
DecodeVerdict == jwt_decode(split(AuthHeader, " ")[2], jwt).kind

\* The caller is present, the header well formed and its token valid.
ValidRequest == CallerPresent /\ BearerHeader /\ DecodeVerdict = "payload"

Claims == jwt.payload

\* The token has a non-empty organization object.
HasOrg == "o" \in DOMAIN Claims /\ Claims.o # EmptyDict

TokenRole == IF HasOrg /\ "rol" \in DOMAIN Claims.o THEN Claims.o.rol ELSE None

RoleMatches == HasOrg /\ TokenRole = arg_role

\* The requirement has exactly two colons, that is three segments.
WellFormedRequirement ==
    Cardinality({i \in 1..Len(arg_permission) : arg_permission[i] = ":"}) = 2

RequiredFeature == split(arg_permission, ":")[2]
RequiredAction  == split(arg_permission, ":")[3]

FeaClaim == IF "fea" \in DOMAIN Claims THEN Claims.fea ELSE <<>>
PerClaim == IF HasOrg /\ "per" \in DOMAIN Claims.o THEN Claims.o.per ELSE <<>>

Features    == parse_set(FeaClaim)
Permissions == parse_set(PerClaim)

\* Role, feature and action of the requirement are all found in the token.
Entitled ==
    /\ RoleMatches
    /\ WellFormedRequirement
    /\ RequiredFeature \in Features
    /\ RequiredAction \in Permissions

Denied(status_code, text) ==
    /\ ~result.returned
    /\ result.status_code = status_code
    /\ result.detail.text = text

\* ------------------------------------------------------------------------
\* Subscribe and unsubscribe requests served by two workers at once
\* ------------------------------------------------------------------------

\* Each worker runs one handler at a time; the statements that the handlers
\* send to the database interleave.  A worker holds the handler's locals.

\* The bodies leave user_id out, and only the responses are recorded.
WorkerBodies == {b \in AgentSubscriptionCreate : b.user_id = None}

Respond(w, out) ==
    /\ sub_response' = out
    /\ workers' = [workers EXCEPT ![w] = Idle]

\* subscribe_agent up to the query for the agent
SubscribeQueryAgent(w) ==
    /\ workers[w].pc = "idle"
    /\ \E user_id \in UserIds, subscription \in WorkerBodies :
          LET own == set_user_id(subscription, Identity(user_id))
          IN  IF agent_by_id(agents, own.agent_id) = {}
              THEN /\ Respond(w,
                              HTTPException(404, Detail("Agent not found")))
              ELSE /\ workers' = [workers EXCEPT ![w] =
                                     [pc |-> "active", subscription |-> own]]
                   /\ UNCHANGED sub_response
    /\ UNCHANGED <<user_agent_purchases, sub_request, current_user>>
    /\ SubscriptionFrame

\* the query for an active subscription of the pair
SubscribeQueryActive(w) ==
    /\ workers[w].pc = "active"
    /\ LET own == workers[w].subscription
       IN  IF get_active_subscription(user_agent_purchases, own.user_id,
                                      own.agent_id) # {}
           THEN Respond(w, HTTPException(400, Detail(
                  "User already has an active subscription for this agent")))
           ELSE /\ workers' = [workers EXCEPT ![w].pc = "insert"]
                /\ UNCHANGED sub_response
    /\ UNCHANGED <<user_agent_purchases, sub_request, current_user>>
    /\ SubscriptionFrame

\* create_subscription: the insert and its commit
SubscribeInsert(w) ==
    /\ workers[w].pc = "insert"
    /\ Len(user_agent_purchases) < MaxSubscriptions
    /\ LET created == create_subscription(user_agent_purchases,
                                          workers[w].subscription)
       IN  /\ user_agent_purchases' = created
           /\ Respond(w, SubscriptionResponse(201, created[Len(created)]))
    /\ UNCHANGED <<sub_request, current_user>>
    /\ SubscriptionFrame

\* unsubscribe_agent up to the check of the owner
UnsubscribeQueryById(w) ==
    /\ workers[w].pc = "idle"
    /\ \E user_id \in UserIds, subscription_id \in 1..(MaxSubscriptions + 1) :
          LET found == get_subscription_by_id(user_agent_purchases,
                                              subscription_id)
              subscription == user_agent_purchases[CHOOSE i \in found : TRUE]
          IN  IF found = {}
              THEN Respond(w,
                       HTTPException(404, Detail("Subscription not found")))
              ELSE IF not_owner(subscription, Identity(user_id))
              THEN Respond(w, HTTPException(403, Detail(
                       "Not authorized to unsubscribe for another user")))
              ELSE /\ workers' = [workers EXCEPT ![w] =
                                     [pc |-> "update",
                                      subscription |-> subscription]]
                   /\ UNCHANGED sub_response
    /\ UNCHANGED <<user_agent_purchases, sub_request, current_user>>
    /\ SubscriptionFrame

\* update_subscription: the query for the active row, its update and commit
UnsubscribeUpdate(w) ==
    /\ workers[w].pc = "update"
    /\ LET subscription == workers[w].subscription
           active == get_active_subscription(user_agent_purchases,
                                             subscription.user_id,
                                             subscription.agent_id)
       IN  IF active = {}
           THEN /\ Respond(w,
                        HTTPException(404, Detail("Subscription not found")))
                /\ UNCHANGED user_agent_purchases
           ELSE \E i \in active :
                   LET updated == update_subscription(user_agent_purchases, i,
                                                      subscription.user_id)
                   IN  /\ user_agent_purchases' = updated
                       /\ Respond(w, SubscriptionResponse(200, updated[i]))
    /\ UNCHANGED <<sub_request, current_user>>
    /\ SubscriptionFrame

NextWorkers ==
    \E w \in Workers :
        \/ SubscribeQueryAgent(w)
        \/ SubscribeQueryActive(w)
        \/ SubscribeInsert(w)
        \/ UnsubscribeQueryById(w)
        \/ UnsubscribeUpdate(w)

SpecWorkers == InitSubscriptions /\ [][NextWorkers]_vars

\* ------------------------------------------------------------------------
\* Properties
\* ------------------------------------------------------------------------

EntitledIsAllowed ==
    (/\ Done
     /\ CallerPresent
     /\ request = GoodRequest
     /\ jwt.kind = "payload"
     /\ Entitled)
        => result = ReturnTrue

\* The scenario {o:{rol:admin, per:manage}, fea:content} against
\* (admin, org:content:manage).
EntitledIsAllowedWitness ==
    /\ Done
    /\ CallerPresent
    /\ request = GoodRequest
    /\ jwt.kind = "payload"
    /\ HasOrg
    /\ TokenRole = Admin
    /\ PerClaim = <<"m">>
    /\ FeaClaim = <<"c">>
    /\ arg_role = Admin
    /\ arg_permission = <<"o", ":", "c", ":", "m">>
    /\ result.returned

\* The number of the first check that fails, in the order 1..8; 0 if none.
FirstFailingCheck ==
    IF ~CallerPresent THEN 1
    ELSE IF ~BearerHeader THEN 2
    ELSE IF DecodeVerdict # "payload" THEN 3
    ELSE IF ~HasOrg THEN 4
    ELSE IF ~RoleMatches THEN 5
    ELSE IF ~WellFormedRequirement THEN 6
    ELSE IF Features = {} THEN 7
    ELSE IF ~(RequiredFeature \in Features /\ RequiredAction \in Permissions) THEN 8
    ELSE 0

RoleMismatchIsInsufficientRole ==
    (Done /\ ValidRequest /\ HasOrg /\ TokenRole # arg_role)
        => result = InsufficientRole(arg_role, TokenRole)

\* The role differs by case only, and feature and action would be granted.
RoleMismatchIsInsufficientRoleWitness ==
    /\ Done
    /\ ValidRequest
    /\ HasOrg
    /\ TokenRole = AdminUpper
    /\ arg_role = Admin
    /\ WellFormedRequirement
    /\ RequiredFeature \in Features
    /\ RequiredAction \in Permissions
    /\ Denied(403, "Insufficient role")

\* The claims of the token with fea and o.per replaced (absent if None).
WithClaims(payload, fea, per) ==
    LET org == [k \in DOMAIN payload.o \ {"per"} |-> payload.o[k]]
                   @@ (IF per = None THEN EmptyDict ELSE ("per" :> per))
    IN  ("o" :> org)
            @@ (IF fea = None THEN EmptyDict ELSE ("fea" :> fea))
            @@ [k \in DOMAIN payload \ {"o", "fea"} |-> payload[k]]

OtherClaims ==
    { <<None, None>>, <<<<"c">>, <<"m">>>>, <<<<"c", ",", "x">>, <<"v">>>>,
      <<<<>>, <<"m", ",", "d">>>> }

\* C5: a role-mismatch denial does not leak features or permissions: the
\* outcome is the same for every token with a non-empty organization object
\* and the same o.rol, whatever its fea and o.per, and its detail holds no
\* feature or permission set.
RoleDenialLeaksNoClaims ==
    (Done /\ ValidRequest /\ HasOrg /\ TokenRole # arg_role)
        => /\ \A c \in OtherClaims :
                  LET other == WithClaims(Claims, c[1], c[2]) IN
                  other.o # EmptyDict =>
                      result = check_role_and_permission(
                                   request, current_user, arg_role,
                                   arg_permission, [jwt EXCEPT !.payload = other])
           /\ result.detail.features = {}
           /\ result.detail.permissions = {}
           /\ result.detail.required = arg_role
           /\ result.detail.found = TokenRole

\* The scenario {o:{rol:user, per:manage}, fea:content} against
\* (admin, org:content:manage).
RoleDenialLeaksNoClaimsWitness ==
    /\ Done
    /\ ValidRequest
    /\ HasOrg
    /\ TokenRole = User
    /\ PerClaim = <<"m">>
    /\ FeaClaim = <<"c">>
    /\ arg_role = Admin
    /\ arg_permission = <<"o", ":", "c", ":", "m">>
    /\ Denied(403, "Insufficient role")

\* C6: a valid token without an organization object, or with an empty one,
\* is denied with 403 "No organization data found in token", whatever
\* required_role, required_permission and fea are.
MissingOrgIsDenied ==
    (Done /\ ValidRequest /\ ~HasOrg)
        => result = HTTPException(403, Detail("No organization data found in token"))

\* The organization object is there but empty, the requirement malformed
\* and the features empty.
MissingOrgIsDeniedWitness ==
    /\ Done
    /\ ValidRequest
    /\ "o" \in DOMAIN Claims
    /\ Claims.o = EmptyDict
    /\ ~WellFormedRequirement
    /\ Features = {}
    /\ Denied(403, "No organization data found in token")

\* C7 as claimed: a requirement that is not three segments raises 500
\* "Invalid permission format" for any valid token with organization data,
\* whatever its role.
MalformedRequirementAlways500 ==
    (Done /\ ValidRequest /\ HasOrg /\ ~WellFormedRequirement)
        => result = InvalidPermissionFormat(arg_permission)

\* C7: a requirement that is not three segments raises 500 "Invalid
\* permission format: <literal>" for any fea and o.per of a valid token that
\* has a non-empty organization object whose o.rol equals required_role.
MalformedRequirementIs500 ==
    (Done /\ ValidRequest /\ RoleMatches /\ ~WellFormedRequirement)
        => result = InvalidPermissionFormat(arg_permission)

\* A requirement of four segments meets a token whose role matches.
MalformedRequirementIs500Witness ==
    /\ Done
    /\ ValidRequest
    /\ RoleMatches
    /\ Len(split(arg_permission, ":")) > 3
    /\ Features # {}
    /\ Denied(500, "Invalid permission format")

\* The string holds nothing but commas and whitespace (or nothing at all).
OnlyCommasAndSpaces(s) == \A i \in 1..Len(s) : s[i] \in {",", " "}

\* C8: a valid token whose fea is absent, empty or only commas and
\* whitespace, with a matching role and a well-formed requirement, is denied
\* with 403 "No feature data found in token", whatever o.per holds.
EmptyFeaturesIsDenied ==
    (/\ Done
     /\ ValidRequest
     /\ RoleMatches
     /\ WellFormedRequirement
     /\ OnlyCommasAndSpaces(FeaClaim))
        => result = HTTPException(403, Detail("No feature data found in token"))

\* fea is there, holds only a comma and whitespace, and o.per holds the
\* required action.
EmptyFeaturesIsDeniedWitness ==
    /\ Done
    /\ ValidRequest
    /\ RoleMatches
    /\ WellFormedRequirement
    /\ FeaClaim = <<" ", ",">>
    /\ RequiredAction \in Permissions
    /\ Denied(403, "No feature data found in token")

\* C9: a valid token with a matching role, a well-formed requirement and a
\* non-empty feature set whose o.per lacks the required action (an empty
\* o.per among them) is denied with 403 "Insufficient permissions", naming
\* the required permission and the found feature and permission sets.
MissingActionIsInsufficientPermission ==
    (/\ Done
     /\ ValidRequest
     /\ RoleMatches
     /\ WellFormedRequirement
     /\ Features # {}
     /\ RequiredAction \notin Permissions)
        => result = InsufficientPermissions(arg_permission, Features, Permissions)

\* o.per parses to the empty set while the required feature is found.
MissingActionIsInsufficientPermissionWitness ==
    /\ Done
    /\ ValidRequest
    /\ RoleMatches
    /\ WellFormedRequirement
    /\ RequiredFeature \in Features
    /\ Permissions = {}
    /\ Denied(403, "Insufficient permissions")
    /\ result.detail.permissions = {}

\* C10: a token decode failure is reported as 401: "Token has expired" for
\* an expired token, "Invalid token ..." for any other invalid one, whatever
\* the requirement and the claims of the token.
DecodeFailureIs401 ==
    (Done /\ CallerPresent /\ BearerHeader /\ DecodeVerdict # "payload")
        => result = HTTPException(401,
                        Detail(IF DecodeVerdict = "ExpiredSignatureError"
                               THEN "Token has expired"
                               ELSE "Invalid token"))

\* An expired token whose claims hold no organization object.
DecodeFailureIs401Witness ==
    /\ Done
    /\ CallerPresent
    /\ request = GoodRequest
    /\ jwt.kind = "ExpiredSignatureError"
    /\ ~HasOrg
    /\ Denied(401, "Token has expired")

\* ------------------------------------------------------------------------
\* Properties of POST /agents
\* ------------------------------------------------------------------------

\* C11: with a caller identity, a request whose Authorization header is
\* absent or does not start with "Bearer " is answered 401 "Invalid
\* authorization header", jwt.decode is not called and no agent is created.
BadHeaderIs401WithoutDecode ==
    [][(pc = "call" /\ CallerPresent /\ ~BearerHeader)
          => /\ response' = HTTPException(401, Detail("Invalid authorization header"))
             /\ decode_calls' = 0
             /\ agents' = agents
             /\ next_id' = next_id]_vars

\* The token fixture of the tests: fea "o:all_content", rol admin, per manage.
FixtureToken ==
    /\ jwt.kind = "payload"
    /\ HasOrg
    /\ TokenRole = Admin
    /\ PerClaim = <<"m">>
    /\ FeaClaim = <<"o", ":", "c">>

\* A header of another scheme, on a request that names a new agent and
\* carries a valid token.
BadHeaderIs401WithoutDecodeWitness ==
    /\ Done
    /\ CallerPresent
    /\ AuthHeader = Basic \o <<" ">> \o MockToken
    /\ jwt.kind = "payload"
    /\ get_agent_by_name(agents, agent_data.name) = {}
    /\ response.status_code = 401
    /\ decode_calls = 0

\* C12: a token whose fea holds the feature written with the prefix of the
\* requirement ("o:all_content"), with rol admin and per manage, satisfies
\* the requirement "o:all_content:manage" of create_agent: the agent is
\* created and the answer is 201.
PrefixedFeatureCreatesAgent ==
    [][(/\ pc = "call"
        /\ CallerPresent
        /\ request = GoodRequest
        /\ FixtureToken
        /\ agent_data.image_data = "None"
        /\ get_agent_by_name(agents, agent_data.name) = {})
          => /\ response' = Created
             /\ agents' = agents \cup {AgentDB(next_id, agent_data)}]_vars

\* ------------------------------------------------------------------------
\* Properties of get_current_user
\* ------------------------------------------------------------------------

\* A step of get_current_user (the other steps move the clock).
Resolving == ticks' = ticks

Verified == jwt.kind = "payload"

Sub == get(jwt.payload, "sub", None)

Sid == get(jwt.payload, "sid", None)

\* The verified token lacks the subject id or the session id.
MissingClaim == Verified /\ (falsy(Sub) \/ falsy(Sid))

\* The request reaches the lookup of the user.
ReachesLookup == Verified /\ ~falsy(Sub) /\ ~falsy(Sid)

IsProviderError(outcome) == outcome \in {"ClerkErrors", "SDKError"}

\* C13: a verified token without sub or without sid is answered with 401;
\* the request calls the provider for nothing and leaves the cache as it
\* was.
MissingClaimIs401 ==
    [][(Resolving /\ MissingClaim')
          => /\ resolved'.status_code = 401
             /\ provider_calls' = <<>>
             /\ cache' = cache]_vars

\* C14: each failure of the token verification is answered with 401 and the
\* message of its kind: expired, bad signature, any other malformed token.
DecodeFailureMessage(kind) ==
    CASE kind = "ExpiredSignatureError" -> "Token has expired"
      [] kind = "InvalidSignatureError" -> "Invalid token signature"
      [] OTHER -> "Invalid token format"

DecodeFailureHasItsMessage ==
    jwt.kind \in AuthDecodeFailures
        => resolved = HTTPException(401, Detail(DecodeFailureMessage(jwt.kind)))

DecodeFailureHasItsMessageWitness ==
    /\ jwt.kind = "InvalidSignatureError"
    /\ resolved = HTTPException(401, Detail("Invalid token signature"))
    /\ cache # <<>>

\* C15: when the cached lookup raises a provider error and the direct call
\* fails too, the request is answered with 401.
ProviderFailureIs401 ==
    (/\ ReachesLookup
     /\ Len(provider_calls) = 2
     /\ IsProviderError(provider_calls[1])
     /\ IsProviderError(provider_calls[2]))
        => resolved.status_code = 401

\* The key of the request, and whether the cache holds it.
RequestKey == <<Sub, current_timestamp>>

Stored(key) == \E i \in 1..Len(cache) : cache[i].key = key

StoredValue(key) == cache[CHOOSE i \in 1..Len(cache) : cache[i].key = key].value

\* C16 as stated: over any sequence of requests, the requests with one key
\* issue at most one provider lookup in total.
AtMostOneLookupPerKey == \A k \in Keys : lookups[k] <= 1

\* C16: a request whose key is stored returns the stored identity without a
\* provider call; so while no provider call has failed and no entry has been
\* evicted, the requests with one key issue at most one provider lookup.
StoredKeyNeedsNoLookup ==
    /\ [](~provider_failed /\ ~evicted => AtMostOneLookupPerKey)
    /\ [][(Resolving /\ ReachesLookup' /\ Stored(RequestKey'))
             => /\ provider_calls' = <<>>
                /\ resolved' = Returned(StoredValue(RequestKey'))
                /\ lookups' = lookups]_vars

StoredKeyNeedsNoLookupWitness ==
    /\ ReachesLookup
    /\ resolved.returned
    /\ provider_calls = <<>>
    /\ lookups[RequestKey] = 1
    /\ requests >= 2
    /\ ~provider_failed
    /\ ~evicted

\* C17: a request whose key of the current bucket is not stored calls the
\* provider, whatever is stored for its subject under earlier buckets, and
\* an identity that is returned was fetched in the current bucket.
NewBucketLooksUpAgain ==
    [][Resolving =>
          /\ (ReachesLookup' /\ ~Stored(RequestKey')) => provider_calls' # <<>>
          /\ resolved'.returned
                => resolved'.user_info =
                       [id |-> Sub', fetched |-> current_timestamp]]_vars

NewBucketLooksUpAgainWitness ==
    /\ ReachesLookup
    /\ resolved.returned
    /\ current_timestamp = 1
    /\ resolved.user_info.fetched = 1
    /\ provider_calls = <<"ok">>
    /\ Stored(<<Sub, 0>>)

\* C18: when the cached lookup raises a provider error and the direct call
\* succeeds, the request returns the identity of the direct call and leaves
\* the cache with that identity under the key of the request as its only
\* entry.
FallbackStoresFreshIdentity ==
    [][(/\ Resolving
        /\ ReachesLookup'
        /\ Len(provider_calls') >= 2
        /\ IsProviderError(provider_calls'[1])
        /\ provider_calls'[2] = "ok")
          => /\ resolved' = Returned([id |-> Sub', fetched |-> current_timestamp])
             /\ Len(cache') = 1
             /\ cache'[1].key = RequestKey'
             /\ cache'[1].value = resolved'.user_info]_vars

\* C19: the cache holds one entry per key and at most maxsize entries, and
\* a new key stored in a full cache takes the place of the entry that was
\* used least recently.
OneEntryPerKey ==
    \A i, j \in 1..Len(cache) : cache[i].key = cache[j].key => i = j

LeastRecentlyUsed(i) == \A j \in 1..Len(cache) : cache[i].used <= cache[j].used

CacheKeys(c) == {c[i].key : i \in 1..Len(c)}

CacheIsBoundedLRU ==
    /\ [](OneEntryPerKey /\ Len(cache) <= maxsize)
    /\ [][(/\ Resolving
           /\ ReachesLookup'
           /\ Len(cache) = maxsize
           /\ ~Stored(RequestKey')
           /\ provider_calls' = <<"ok">>)
             => \E i \in 1..Len(cache) :
                   /\ LeastRecentlyUsed(i)
                   /\ CacheKeys(cache') =
                          (CacheKeys(cache) \ {cache[i].key}) \cup {RequestKey'}]_vars

\* The first entry stored was used again before the cache was full, and is
\* kept when the next new key evicts an entry.
CacheIsBoundedLRUWitness ==
    /\ evicted
    /\ ~provider_failed
    /\ Len(cache) = maxsize
    /\ requests = maxsize + 2
    /\ \E i \in 1..Len(cache) : cache[i].stored = 0 /\ cache[i].used = maxsize
    /\ cache[Len(cache)].stored = maxsize + 1

\* C20 as stated: a request issues at most one provider call on every path.
AtMostOneProviderCall == Len(provider_calls) <= 1

\* C20: a request issues no provider call when its token is refused or its
\* key is stored, one when the provider answers the lookup of a new key,
\* two when the lookup and the direct call both fail, and three when the
\* direct call succeeds: the failed lookup, the direct call and the lookup
\* that stores the user again.
ProviderCallsPerPath ==
    [][Resolving =>
          LET n == Len(provider_calls')
          IN  /\ n <= 3
              /\ (~ReachesLookup' \/ Stored(RequestKey')) => n = 0
              /\ (ReachesLookup' /\ ~Stored(RequestKey'))
                    => /\ n >= 1
                       /\ provider_calls'[1] = "ok" => n = 1
                       /\ IsProviderError(provider_calls'[1])
                             => /\ n >= 2
                                /\ IsProviderError(provider_calls'[2]) => n = 2
                                /\ provider_calls'[2] = "ok" => n = 3]_vars

ProviderCallsPerPathWitness ==
    /\ ReachesLookup
    /\ resolved.returned
    /\ Len(provider_calls) = 3
    /\ IsProviderError(provider_calls[1])
    /\ cache # <<>>

\* ------------------------------------------------------------------------
\* Properties of the subscription endpoints
\* ------------------------------------------------------------------------

Rows == 1..Len(user_agent_purchases)

IsActive(i, user_id, agent_id) ==
    /\ user_agent_purchases[i].user_id = user_id
    /\ user_agent_purchases[i].agent_id = agent_id
    /\ user_agent_purchases[i].ownership_status = "active"

HasActive(user_id, agent_id) == \E i \in Rows : IsActive(i, user_id, agent_id)

Caller == current_user["id"]

Subscribing == sub_request.op = "subscribe"

Unsubscribing == sub_request.op = "unsubscribe"

AgentExists(agent_id) == \E a \in agents : a.id = agent_id

TableUnchanged == user_agent_purchases' = user_agent_purchases

AlreadySubscribed ==
    HTTPException(400,
        Detail("User already has an active subscription for this agent"))

\* C21: after any interleaving of subscribe and unsubscribe requests, two
\* at once by one user for one agent included, a user has at most one
\* active subscription row for an agent.
AtMostOneActivePerPair ==
    \A i, j \in Rows :
        (/\ user_agent_purchases[i].ownership_status = "active"
         /\ IsActive(j, user_agent_purchases[i].user_id,
                     user_agent_purchases[i].agent_id))
            => i = j

\* C22: a subscribe request of a user who has an active subscription for
\* the agent is refused with 400, one for an agent id that no agent has is
\* refused with 404, and neither adds or changes a row.
RefusedSubscribeAddsNoRow ==
    [][Subscribing' =>
          /\ (/\ AgentExists(sub_request'.body.agent_id)
              /\ HasActive(Caller', sub_request'.body.agent_id))
                => /\ sub_response' = AlreadySubscribed
                   /\ TableUnchanged
          /\ ~AgentExists(sub_request'.body.agent_id)
                => /\ sub_response' = HTTPException(404, Detail("Agent not found"))
                   /\ TableUnchanged]_vars

RefusedSubscribeAddsNoRowWitness ==
    /\ Subscribing
    /\ sub_response.status_code = 400
    /\ HasActive(Caller, sub_request.body.agent_id)
    /\ Len(user_agent_purchases) = 2

\* C23: an unsubscribe by the owner that succeeds returns the row with the
\* id of the request, unsubscribed, and changes no other row.
UnsubscribeReturnsRequestedRow ==
    [][(Unsubscribing' /\ sub_response'.returned)
          => /\ sub_response'.row.id = sub_request'.id
             /\ sub_response'.row.ownership_status = "unsubscribed"
             /\ \A i \in Rows :
                   i # sub_request'.id
                      => user_agent_purchases'[i] = user_agent_purchases[i]]_vars

\* The pair of the row that an unsubscribe request names has no active row.
PairOf(i) ==
    <<user_agent_purchases[i].user_id, user_agent_purchases[i].agent_id>>

SubscriptionBelongsToCaller ==
    (Subscribing /\ sub_response.returned)
        => /\ sub_response.row.user_id = Caller
           /\ sub_response.row.id \in Rows
           /\ user_agent_purchases[sub_response.row.id].user_id = Caller

SubscriptionBelongsToCallerWitness ==
    /\ Subscribing
    /\ sub_response.returned
    /\ sub_request.body.user_id \in UserIds \ {Caller}

\* C30: an unsubscribe request for a row of another user is answered with
\* 403 and changes nothing, and the status of a row has only been changed
\* by requests of the row's user.
OnlyOwnerUnsubscribes ==
    /\ [](\A i \in Rows : user_agent_purchases[i].changed_by
                             \subseteq {user_agent_purchases[i].user_id})
    /\ [][(/\ Unsubscribing'
           /\ sub_request'.id \in Rows
           /\ user_agent_purchases[sub_request'.id].user_id # Caller')
             => /\ sub_response' = HTTPException(403, Detail(
                       "Not authorized to unsubscribe for another user"))
                /\ TableUnchanged]_vars

OnlyOwnerUnsubscribesWitness ==
    /\ Unsubscribing
    /\ sub_response.status_code = 403
    /\ sub_request.id \in Rows
    /\ user_agent_purchases[sub_request.id].ownership_status = "active"
    /\ \E i \in Rows : user_agent_purchases[i].changed_by # {}

\* ------------------------------------------------------------------------
\* Properties of the agent endpoints
\* ------------------------------------------------------------------------

\* The request passes the evaluator: it is valid and its token holds the
\* role, the feature and the action of the requirement.
Granted == ValidRequest /\ Entitled

\* C25: create_agent adds an agent only when the evaluator has granted the
\* request; when the evaluator raises, the response is what it raised (401,
\* 403 or 500) and the catalog is as it was.
CreateOnlyWhenGranted ==
    [][(pc = "call" /\ pc' = "done" /\ ~Granted)
          => /\ agents' = agents
             /\ next_id' = next_id
             /\ ~response'.returned
             /\ response'.status_code \in {401, 403, 500}]_vars

CreateOnlyWhenGrantedWitness ==
    /\ Done
    /\ ValidRequest
    /\ ~Entitled
    /\ response.status_code = 403
    /\ agent_data.image_data = "None"
    /\ agents = {}

\* ------------------------------------------------------------------------
\* Properties of the catalog endpoints
\* ------------------------------------------------------------------------

Requested(op) == pc = "call" /\ pc' = "done" /\ agent_request'.op = op

\* Another agent than agent_id holds the name.
NameTaken(name, agent_id) ==
    \E a \in agents : a.name = name /\ a.id # agent_id

DuplicateName ==
    HTTPException(400, Detail("An agent with this name already exists"))

\* A granted create whose name an agent holds.
CreatesTakenName ==
    /\ Requested("create")
    /\ Granted
    /\ NameTaken(agent_data.name, 0)

\* An update of an agent of the catalog to a name that another agent holds.
UpdatesToTakenName ==
    /\ Requested("update")
    /\ \E a \in agents : a.id = agent_request'.agent_id
    /\ "name" \in DOMAIN agent_request'.agent_update
    /\ NameTaken(agent_request'.agent_update.name, agent_request'.agent_id)

\* C24: a create or an update that would give an agent the name held by a
\* different agent is rejected with 400 "An agent with this name already
\* exists" and leaves the catalog unchanged, whatever the catalog's size and
\* the display_order of the agents.
TakenNameIsRejected ==
    [][(CreatesTakenName \/ UpdatesToTakenName)
          => response' = DuplicateName /\ agents' = agents]_vars

\* All agents matching the query, in display_order, sliced by skip and limit.
AllMatches(query, skip, limit) ==
    {slice(filter(list, lower(query)), skip, limit) :
         list \in order_by_display_order(agents)}

\* C26: search_agents returns every agent of the catalog whose name, title or
\* description contains the query case-insensitively, in display_order,
\* sliced by skip and limit; none is omitted for its position in the catalog
\* or the catalog's size.
SearchFindsEveryMatch ==
    [][Requested("search")
          => /\ response'.status_code = 200
             /\ response'.list \in AllMatches(agent_request'.query,
                                              agent_request'.skip,
                                              agent_request'.limit)]_vars

\* C27: the catalog changes (an agent is created, changed or removed) only
\* when the evaluator grants the admin role and the manage permission to the
\* request's token.
CatalogChangesOnlyWhenGranted ==
    [][(pc = "call" /\ pc' = "done" /\ agents' # agents) => Granted]_vars

====
